---- MODULE Spec2Model ----
(***************************************************************************)
(* Model of aide/interpreter_sandbox_attempt.py: the Interpreter, its      *)
(* coroutine run() and the ExecutionResult it builds from the response of  *)
(* the sandbox backend.                                                    *)
(*                                                                         *)
(* Every run call is a coroutine with one suspension point, the            *)
(* `await self.sandbox.exec(...)`.  Run is the part of run() up to that    *)
(* await, Resume is the part after it.  The backend is the environment: it *)
(* may return, raise, or stay silent.  Time is the wall clock time.time(), *)
(* counted in whole seconds.                                               *)
(***************************************************************************)
EXTENDS Integers, Sequences, FiniteSets, TLC

\* ------------------------------------------------------------------------
\* Bounds
\* ------------------------------------------------------------------------
MaxCalls == 2
MaxTime == 2

Calls == 1 .. MaxCalls
\* the calls issued in the one-call-at-a-time specification
SeqCalls == {1}

\* ------------------------------------------------------------------------
\* Values
\* ------------------------------------------------------------------------
\* Python's Optional: None is the empty tuple, a present value v is <<v>>
None == << >>
Some(v) == << v >>

DefaultTimeout == 3600
Timeouts == {1, DefaultTimeout}
\* working_dir is a str or a pathlib.Path
WorkingDirs == {[type |-> "str", path |-> "/work"], [type |-> "Path", path |-> "/data"]}
Sandboxes == {None, Some("sandbox")}

Codes == {"print(42)", "1/0"}
Stdouts == {"", "42\n"}
Stderrs == {"", "Traceback"}
ReturnCodes == {0 - 9, 0, 1}
\* classes the backend invocation can raise, and the text str(e) of the error
ErrorClasses == {"ConnectionError", "RuntimeError", "CancelledError"}
ErrorTexts == {"connection reset", ""}

\* the reduced inputs used when several calls overlap
ConcCodes == {"print(42)"}
ConcStdouts == {"42\n"}
ConcStderrs == {""}
ConcReturnCodes == {0, 1}
ConcErrorClasses == {"ConnectionError", "CancelledError"}
ConcErrorTexts == {"connection reset"}

Pending == [kind |-> "pending"]

VARIABLES
    working_dir,        \* self.working_dir
    timeout,            \* self.timeout
    format_tb_ipython,  \* self.format_tb_ipython
    agent_file_name,    \* self.agent_file_name
    sandbox,            \* self.sandbox
    now,                \* time.time()
    pc,                 \* per call: "idle", "awaiting", "returned", "raised"
    start_time,         \* per call: the local start_time
    request,            \* per call: the arguments of its sandbox.exec call
    execCount,          \* per call: how many times it invoked sandbox.exec
    outcome,            \* per call: what the backend answered its invocation
    ret,                \* per call: the ExecutionResult run returned
    exc                 \* per call: the exception that escaped run

config == <<working_dir, timeout, format_tb_ipython, agent_file_name, sandbox>>
vars == <<working_dir, timeout, format_tb_ipython, agent_file_name, sandbox,
          now, pc, start_time, request, execCount, outcome, ret, exc>>

\* ------------------------------------------------------------------------
\* Helpers of run()
\* ------------------------------------------------------------------------
\* str(self.working_dir)
Str(w) == w.path

\* `not self.sandbox` is the negation of this; a handle is an ordinary object
Truthy_always(s) == TRUE
Truthy(s) == s # None

\* RuntimeError("Sandbox is required for execution")
SandboxRequired == [cls |-> "RuntimeError", msg |-> "Sandbox is required for execution"]

\* the keyword arguments of self.sandbox.exec
ExecArgs_default(code) ==
    [cmd |-> <<"python3">>, input |-> code, timeout |-> DefaultTimeout,
     cwd |-> Str(working_dir)]
ExecArgs(code) ==
    [cmd |-> <<"python3">>, input |-> code, timeout |-> timeout,
     cwd |-> Str(working_dir)]

\* humanize.naturaldelta on a whole number of seconds
NaturalDelta(s) ==
    IF s = 0 THEN "a moment"
    ELSE IF s = 1 THEN "a second"
    ELSE IF s < 60 THEN ToString(s) \o " seconds"
    ELSE IF s < 120 THEN "a minute"
    ELSE IF s < 3600 THEN ToString(s \div 60) \o " minutes"
    ELSE IF s < 7200 THEN "an hour"
    ELSE ToString(s \div 3600) \o " hours"

\* the execution time info line
TimingLine(exec_time) ==
    "Execution time: " \o NaturalDelta(exec_time) \o " seconds (time limit is "
        \o NaturalDelta(timeout) \o ")."

\* output = []; stderr if non-empty, stdout if non-empty, the timing line
BuildOutput_swapped(result, exec_time) ==
    (IF result.stdout # "" THEN <<result.stdout>> ELSE << >>)
        \o (IF result.stderr # "" THEN <<result.stderr>> ELSE << >>)
        \o <<TimingLine(exec_time)>>
BuildOutput(result, exec_time) ==
    (IF result.stderr # "" THEN <<result.stderr>> ELSE << >>)
        \o (IF result.stdout # "" THEN <<result.stdout>> ELSE << >>)
        \o <<TimingLine(exec_time)>>

\* the ExecutionResult of the try body
NormalResult_positive(result, exec_time) ==
    [term_out |-> BuildOutput(result, exec_time),
     exec_time |-> exec_time,
     exc_type |-> IF result.returncode > 0 THEN Some("RuntimeError") ELSE None,
     exc_info |-> IF result.returncode > 0
                  THEN Some([returncode |-> result.returncode]) ELSE None,
     exc_stack |-> None]
NormalResult_info(result, exec_time) ==
    [term_out |-> BuildOutput(result, exec_time),
     exec_time |-> exec_time,
     exc_type |-> IF result.returncode = 0 THEN None ELSE Some("RuntimeError"),
     exc_info |-> Some([returncode |-> result.returncode]),
     exc_stack |-> None]
NormalResult(result, exec_time) ==
    [term_out |-> BuildOutput(result, exec_time),
     exec_time |-> exec_time,
     exc_type |-> IF result.returncode = 0 THEN None ELSE Some("RuntimeError"),
     exc_info |-> IF result.returncode # 0
                  THEN Some([returncode |-> result.returncode]) ELSE None,
     exc_stack |-> None]

\* `except Exception`: CancelledError derives from BaseException only
Catches_named(cls) == cls = "ConnectionError"
Catches(cls) == cls \in {"ConnectionError", "RuntimeError"}

\* the ExecutionResult of the except clause
ExceptResult_typed(e, exec_time) ==
    [term_out |-> <<e.msg>>,
     exec_time |-> exec_time,
     exc_type |-> Some(e.cls),
     exc_info |-> Some([error |-> e.cls]),
     exc_stack |-> None]
ExceptResult(e, exec_time) ==
    [term_out |-> <<e.msg>>,
     exec_time |-> exec_time,
     exc_type |-> Some(e.cls),
     exc_info |-> Some([error |-> e.msg]),
     exc_stack |-> None]

\* ------------------------------------------------------------------------
\* Initial state: the Interpreter as __init__ leaves it, no call issued
\* ------------------------------------------------------------------------
Init ==
    /\ working_dir \in WorkingDirs
    /\ timeout \in Timeouts
    /\ format_tb_ipython = FALSE
    /\ agent_file_name = "runfile.py"
    /\ sandbox \in Sandboxes
    /\ now = 0
    /\ pc = [c \in Calls |-> "idle"]
    /\ start_time = [c \in Calls |-> 0]
    /\ request = [c \in Calls |-> None]
    /\ execCount = [c \in Calls |-> 0]
    /\ outcome = [c \in Calls |-> Pending]
    /\ ret = [c \in Calls |-> None]
    /\ exc = [c \in Calls |-> None]

\* ------------------------------------------------------------------------
\* Actions
\* ------------------------------------------------------------------------
\* run(code, reset_session) up to the await
Run(c, code, reset_session) ==
    /\ pc[c] = "idle"
    /\ IF ~Truthy(sandbox)
       THEN /\ pc' = [pc EXCEPT ![c] = "raised"]
            /\ exc' = [exc EXCEPT ![c] = Some(SandboxRequired)]
            /\ UNCHANGED <<start_time, request, execCount>>
       ELSE /\ start_time' = [start_time EXCEPT ![c] = now]
            /\ request' = [request EXCEPT ![c] = Some(ExecArgs(code))]
            /\ execCount' = [execCount EXCEPT ![c] = @ + 1]
            /\ pc' = [pc EXCEPT ![c] = "awaiting"]
            /\ exc' = exc
    /\ UNCHANGED <<config, now, outcome, ret>>

\* the backend completes the invocation of call c with a response
BackendReturns(c, stdout, stderr, returncode) ==
    /\ pc[c] = "awaiting"
    /\ outcome[c] = Pending
    /\ outcome' = [outcome EXCEPT ![c] =
           [kind |-> "return", stdout |-> stdout, stderr |-> stderr,
            returncode |-> returncode]]
    /\ UNCHANGED <<config, now, pc, start_time, request, execCount, ret, exc>>

\* the invocation of call c raises
BackendRaises(c, cls, msg) ==
    /\ pc[c] = "awaiting"
    /\ outcome[c] = Pending
    /\ outcome' = [outcome EXCEPT ![c] = [kind |-> "raise", cls |-> cls, msg |-> msg]]
    /\ UNCHANGED <<config, now, pc, start_time, request, execCount, ret, exc>>

\* what run() does with the answer o of its await, exec_time seconds after start
Finish(c, o, exec_time) ==
    IF o.kind = "return"
    THEN /\ ret' = [ret EXCEPT ![c] = Some(NormalResult(o, exec_time))]
         /\ pc' = [pc EXCEPT ![c] = "returned"]
         /\ exc' = exc
    ELSE IF Catches(o.cls)
    THEN /\ ret' = [ret EXCEPT ![c] = Some(ExceptResult(o, exec_time))]
         /\ pc' = [pc EXCEPT ![c] = "returned"]
         /\ exc' = exc
    ELSE /\ exc' = [exc EXCEPT ![c] = Some([cls |-> o.cls, msg |-> o.msg])]
         /\ pc' = [pc EXCEPT ![c] = "raised"]
         /\ ret' = ret

\* run() from the await to its return
Resume_shared(c) ==
    /\ pc[c] = "awaiting"
    /\ \E d \in Calls :
          /\ outcome[d] # Pending
          /\ Finish(c, outcome[d], now - start_time[c])
    /\ UNCHANGED <<config, now, start_time, request, execCount, outcome>>
Resume_timer(c) ==
    /\ pc[c] = "awaiting"
    /\ \/ /\ outcome[c] # Pending
          /\ Finish(c, outcome[c], now - start_time[c])
       \/ /\ outcome[c] = Pending
          /\ now - start_time[c] >= timeout
          /\ Finish(c, [kind |-> "raise", cls |-> "TimeoutError", msg |-> ""],
                    now - start_time[c])
    /\ UNCHANGED <<config, now, start_time, request, execCount, outcome>>
Resume(c) ==
    /\ pc[c] = "awaiting"
    /\ outcome[c] # Pending
    /\ Finish(c, outcome[c], now - start_time[c])
    /\ UNCHANGED <<config, now, start_time, request, execCount, outcome>>

\* the wall clock advances
Tick ==
    /\ now < MaxTime
    /\ now' = now + 1
    /\ UNCHANGED <<config, pc, start_time, request, execCount, outcome, ret, exc>>

\* ------------------------------------------------------------------------
\* Specifications
\* ------------------------------------------------------------------------
\* one call at a time, every input
Next ==
    \/ \E c \in SeqCalls, code \in Codes, reset_session \in BOOLEAN :
          Run(c, code, reset_session)
    \/ \E c \in SeqCalls, so \in Stdouts, se \in Stderrs, rc \in ReturnCodes :
          BackendReturns(c, so, se, rc)
    \/ \E c \in SeqCalls, cls \in ErrorClasses, msg \in ErrorTexts :
          BackendRaises(c, cls, msg)
    \/ \E c \in SeqCalls : Resume(c)
    \/ Tick

Spec == Init /\ [][Next]_vars

\* overlapping calls on the one Interpreter
NextConc ==
    \/ \E c \in Calls, code \in ConcCodes, reset_session \in BOOLEAN :
          Run(c, code, reset_session)
    \/ \E c \in Calls, so \in ConcStdouts, se \in ConcStderrs, rc \in ConcReturnCodes :
          BackendReturns(c, so, se, rc)
    \/ \E c \in Calls, cls \in ConcErrorClasses, msg \in ConcErrorTexts :
          BackendRaises(c, cls, msg)
    \/ \E c \in Calls : Resume(c)
    \/ Tick

ConcSpec == Init /\ [][NextConc]_vars

\* the event loop resumes a coroutine whose awaited call has completed
LiveSpec == Init /\ [][NextConc]_vars /\ \A c \in Calls : WF_vars(Resume(c))

\* ------------------------------------------------------------------------
\* Properties
\* ------------------------------------------------------------------------
\* call c went through the backend and run() has finished
Finished(c) == pc[c] \in {"returned", "raised"} /\ execCount[c] > 0
Result(c) == ret[c][1]
\* the classes of ErrorClasses that derive from Exception
ExceptionSubclasses == {"ConnectionError", "RuntimeError"}
\* the failure kind run reports for a non-zero exit status N
ExitKind(N) == NormalResult([stdout |-> "", stderr |-> "", returncode |-> N], 0).exc_type
\* the dict d has the value v under one of its keys
Carries(d, v) == \E k \in DOMAIN d : d[k] = v

\* C1 (as stated): whenever the backend invocation raises, whatever the
\* error, run returns a result whose failure kind is the dispatch-failure
\* kind (present, and not the kind of a non-zero exit), whose output has
\* exactly one entry, the error's text, and no exception escapes run.
C1_Original ==
    \A c \in Calls :
        (Finished(c) /\ outcome[c].kind = "raise") =>
            /\ pc[c] = "returned"
            /\ exc[c] = None
            /\ Result(c).exc_type # None
            /\ \A N \in ReturnCodes \ {0} : Result(c).exc_type # ExitKind(N)
            /\ Result(c).term_out = <<outcome[c].msg>>

\* C1 (amended): when the backend invocation raises an error that derives
\* from Exception, run returns a result whose failure kind is the error's
\* class name and whose output is exactly one entry, the error's text, and
\* nothing escapes run; an error that does not derive from Exception
\* escapes run and no result is returned.
C1_RaisedErrorsNormalized ==
    \A c \in Calls :
        (Finished(c) /\ outcome[c].kind = "raise") =>
            IF outcome[c].cls \in ExceptionSubclasses
            THEN /\ pc[c] = "returned"
                 /\ exc[c] = None
                 /\ Result(c).exc_type = Some(outcome[c].cls)
                 /\ Result(c).term_out = <<outcome[c].msg>>
            ELSE /\ pc[c] = "raised"
                 /\ ret[c] = None
                 /\ exc[c] = Some([cls |-> outcome[c].cls, msg |-> outcome[c].msg])

C1_Witness ==
    \E c \in Calls :
        /\ pc[c] = "returned"
        /\ outcome[c].kind = "raise"
        /\ outcome[c].cls = "RuntimeError"
        /\ outcome[c].msg = "connection reset"

\* C2: when the backend returns normally with exit status N, the result has
\* exc_type "RuntimeError" and exc_info carrying exactly N if N is not zero,
\* both absent if N is zero, and exc_stack absent in both cases.
C2_ExitStatus ==
    \A c \in Calls :
        (Finished(c) /\ outcome[c].kind = "return") =>
            /\ pc[c] = "returned"
            /\ outcome[c].returncode # 0 =>
                  /\ Result(c).exc_type = Some("RuntimeError")
                  /\ Result(c).exc_info = Some([returncode |-> outcome[c].returncode])
            /\ outcome[c].returncode = 0 =>
                  /\ Result(c).exc_type = None
                  /\ Result(c).exc_info = None
            /\ Result(c).exc_stack = None

C2_Witness ==
    \E c \in Calls :
        /\ pc[c] = "returned"
        /\ outcome[c].kind = "return"
        /\ outcome[c].returncode < 0

C4_OutputOrder ==
    \A c \in Calls :
        (pc[c] = "returned" /\ outcome[c].kind = "return") =>
            LET out == Result(c).term_out
                e == IF outcome[c].stderr # "" THEN 1 ELSE 0
                o == IF outcome[c].stdout # "" THEN 1 ELSE 0
            IN  /\ Len(out) = e + o + 1
                /\ out[Len(out)] = TimingLine(Result(c).exec_time)
                /\ e = 1 => out[1] = outcome[c].stderr
                /\ o = 1 => out[e + 1] = outcome[c].stdout

C4_Witness ==
    \E c \in Calls :
        /\ pc[c] = "returned"
        /\ outcome[c].kind = "return"
        /\ outcome[c].stderr # ""
        /\ outcome[c].stdout # ""
        /\ Len(Result(c).term_out) = 3

\* C5: in every result run returns, exc_type is absent iff exc_info is absent.
C5_KindIffDetail ==
    \A c \in Calls :
        ret[c] # None => (Result(c).exc_type = None <=> Result(c).exc_info = None)

C5_Witness ==
    \E c \in Calls :
        /\ ret[c] # None
        /\ outcome[c].kind = "return"
        /\ outcome[c].returncode = 0
        /\ Result(c).exc_type = None

\* C6: the failure kind of a result produced because the invocation raised
\* differs from the failure kind of every result produced because of a
\* non-zero exit status.
C6_KindsDistinct ==
    \A c \in Calls :
        (pc[c] = "returned" /\ outcome[c].kind = "raise") =>
            \A N \in ReturnCodes \ {0} : Result(c).exc_type # ExitKind(N)

\* C7 (as stated): when the backend invocation raises, exc_info of the
\* returned result carries both the error's class name and its message.
C7_Original ==
    \A c \in Calls :
        (pc[c] = "returned" /\ outcome[c].kind = "raise") =>
            /\ Result(c).exc_info # None
            /\ Carries(Result(c).exc_info[1], outcome[c].cls)
            /\ Carries(Result(c).exc_info[1], outcome[c].msg)

\* C7 (amended): when the backend invocation raises, exc_info of the returned
\* result carries the error's message alone, under the key "error"; the
\* error's class name is carried by exc_type.
C7_DetailIsMessage ==
    \A c \in Calls :
        (pc[c] = "returned" /\ outcome[c].kind = "raise") =>
            /\ Result(c).exc_info = Some([error |-> outcome[c].msg])
            /\ Result(c).exc_type = Some(outcome[c].cls)

C7_Witness ==
    \E c \in Calls :
        /\ pc[c] = "returned"
        /\ outcome[c].kind = "raise"
        /\ outcome[c].cls = "ConnectionError"
        /\ Result(c).exc_info = Some([error |-> "connection reset"])

\* what call c must have ended with, given the answer to its own invocation
OwnEnding(c) ==
    /\ outcome[c] # Pending
    /\ IF outcome[c].kind = "return"
       THEN /\ pc[c] = "returned"
            /\ ret[c] = Some(NormalResult(outcome[c], Result(c).exec_time))
            /\ exc[c] = None
       ELSE IF outcome[c].cls \in ExceptionSubclasses
       THEN /\ pc[c] = "returned"
            /\ ret[c] = Some(ExceptResult(outcome[c], Result(c).exec_time))
            /\ exc[c] = None
       ELSE /\ pc[c] = "raised"
            /\ ret[c] = None
            /\ exc[c] = Some([cls |-> outcome[c].cls, msg |-> outcome[c].msg])

\* C8: however run calls on the one Interpreter overlap, each call ends with
\* the result (or error) that the answer to its own backend invocation
\* determines, and no step of any call changes the configuration.
C8_Isolation ==
    /\ [](\A c \in Calls : Finished(c) => OwnEnding(c))
    /\ [][config' = config]_vars

\* two calls overlapped in time and ended differently
C8_Witness ==
    /\ pc[1] = "returned" /\ pc[2] = "returned"
    /\ outcome[1].kind = "return" /\ outcome[1].returncode = 1
    /\ outcome[2].kind = "raise"
    /\ start_time[2] < start_time[1] + Result(1).exec_time
    /\ start_time[1] < start_time[2] + Result(2).exec_time

\* C9: a run call with a backend invokes the backend exactly once, whatever
\* the outcome, and passes it the configured timeout and working directory.
C9_ExactlyOnce ==
    \A c \in Calls :
        /\ pc[c] = "idle" => execCount[c] = 0
        /\ (sandbox # None /\ pc[c] # "idle") =>
              /\ execCount[c] = 1
              /\ request[c] # None
              /\ request[c][1].timeout = timeout
              /\ request[c][1].cwd = working_dir.path

C9_Witness ==
    \E c \in Calls :
        /\ pc[c] = "returned"
        /\ outcome[c].kind = "raise"
        /\ execCount[c] = 1
        /\ timeout # DefaultTimeout

====
